---- MODULE Spec2Model ----
(***************************************************************************)
(* Model of get_weather.py: the Storm Glass forecast fetcher.              *)
(*                                                                         *)
(* Two specifications share this module.                                   *)
(*   Spec           one run of the script (the __main__ block): argument   *)
(*                  parsing, the two clock reads, key loading, the HTTP    *)
(*                  fetch, the transform of hours and meta, the file write *)
(*                  and the except chain that ends a failed run.           *)
(*   SpecTransform  the per-record pipeline of _transform_hour, one        *)
(*                  function call per step, over a wider set of raw hour   *)
(*                  records than a whole run can carry.                    *)
(*                                                                         *)
(* JSON values are tagged records: Num(n) a number, Str(s) a string, Null, *)
(* Map(m) a source container (a dict from source ids to numbers), Iso(h) a *)
(* string that parses as an ISO-8601 instant, Local(d, h) a formatted      *)
(* 'YYYY-MM-DD HH:mm' string.  A dict is a function on its key set.        *)
(* Numbers are fixed point: Num(n) stands for n / Scale.                   *)
(***************************************************************************)
EXTENDS Integers, Sequences, FiniteSets, TLC

VARIABLES
    \* ---- one run of the script (Spec) ----
    pc,                \* position in the __main__ block
    args,              \* the argparse namespace
    clock,             \* the last instant the wall clock showed, in ticks
    start,             \* start of the requested window
    end,               \* end of the requested window
    env,               \* os.environ.get('STORMGLASS_API_KEY')
    api_key,           \* what get_api_key returned
    request,           \* the query sent by requests.get, or None
    response,          \* the HTTP response received, or None
    raw_data,          \* what _fetch_weather_data returned
    hours_t,           \* what _process_hours returned
    transformed_data,  \* the assembled {hours, meta}
    file,              \* the output file: old content, or what was dumped
    file_opened,       \* whether this run opened the output file for writing
    exc,               \* the exception that ended the run, or None
    printed,           \* the banner _print_error_message printed
    exit_code,         \* the process exit status
    \* ---- the per-record pipeline (SpecTransform) ----
    t_pc,              \* position in _transform_hour
    hour,              \* the raw hour record passed in
    flattened,         \* _flatten_hour(hour)
    reflattened,       \* _flatten_hour applied to flattened
    with_speeds,       \* _convert_hour_speeds(flattened)
    transformed        \* the outcome of _transform_hour: a value or a raise

run_vars == <<pc, args, clock, start, end, env, api_key, request, response,
              raw_data, hours_t, transformed_data, file, file_opened, exc,
              printed, exit_code>>
pipe_vars == <<t_pc, hour, flattened, reflattened, with_speeds, transformed>>
vars == <<run_vars, pipe_vars>>

(***************************************************************************)
(* Bounds of the model.                                                    *)
(***************************************************************************)
\* longest hours list a response carries
MaxHours == 2
\* command-line integers range over -1 .. MaxArg
MaxArg == 8
\* raw numbers range over 0 .. MaxNum (whole metres per second, degrees, ...)
MaxNum == 1
\* clock ticks in one calendar day
TicksPerDay == 2

(***************************************************************************)
(* Values.                                                                 *)
(***************************************************************************)
None == [t |-> "none"]
Null == [t |-> "null"]
Num(n) == [t |-> "num", n |-> n]
Str(s) == [t |-> "str", s |-> s]
Map(m) == [t |-> "map", m |-> m]
Iso(h) == [t |-> "iso", utc |-> h]
Local(d, h) == [t |-> "local", day |-> d, hh |-> h]

\* fixed-point unit: Num(n) is n / Scale
Scale == 100000
\* MS_TO_KNOTS = 1.94384, in units of 1 / Scale
MS_TO_KNOTS == 194384

\* the outcome of a call: a returned value or a raised exception
Ok(v) == [ok |-> TRUE, val |-> v]
Raised(e) == [ok |-> FALSE, exc |-> e]
Exception(cls, msg) == [cls |-> cls, message |-> msg]

\* {**a, **b}: the keys of both, b's value where both have the key
DictMerge(a, b) ==
    [k \in (DOMAIN a) \cup (DOMAIN b) |-> IF k \in DOMAIN b THEN b[k] ELSE a[k]]

(***************************************************************************)
(* Input domains.                                                          *)
(***************************************************************************)
SourceIds == {"sg", "noaa"}
NumValues == {Num(n * Scale) : n \in 0..MaxNum}
Scalars == NumValues \cup {Str("n/a"), Null}
\* a source container: any subset of the source ids, each with a number
Containers ==
    {Map(m) : m \in UNION {[S -> NumValues] : S \in SUBSET SourceIds}}
RawValues == Scalars \cup Containers

\* hours since 2024-01-01T00:00Z of the sample instants:
\* 2024-01-01T12:00Z, 2024-01-01T23:00Z, 2024-06-01T00:00Z
SampleInstants == {12, 23, 3648}
TimeValues == {Iso(h) : h \in SampleInstants} \cup {Str("not a timestamp")}

ParamKeys == {"windSpeed", "gust", "airTemperature"}

\* raw hour records: any subset of the keys; `time` a timestamp string (valid
\* or not), each parameter a scalar or a source container
RawHourRecords ==
    UNION {
        {r \in [K -> RawValues \cup TimeValues] :
            \A k \in K : IF k = "time" THEN r[k] \in TimeValues
                                       ELSE r[k] \in RawValues}
        : K \in SUBSET (ParamKeys \cup {"time"})}

(***************************************************************************)
(* _flatten_hour (lines 134-141).                                          *)
(***************************************************************************)
isinstance_dict(value) == value.t = "map"

flatten_value(value) ==
    IF isinstance_dict(value) /\ "sg" \in DOMAIN value.m
    THEN value.m["sg"]
    ELSE value

\* a flattening that drops the fields whose container has no 'sg' entry
flatten_hour_dropping(h) ==
    [key \in {k \in DOMAIN h :
                ~(isinstance_dict(h[k]) /\ "sg" \notin DOMAIN h[k].m)}
        |-> flatten_value(h[key])]

flatten_hour(h) == [key \in DOMAIN h |-> flatten_value(h[key])]

(***************************************************************************)
(* _convert_hour_speeds (lines 143-152).                                   *)
(***************************************************************************)
wind_speed_keys == {"windSpeed", "gust"}

isinstance_number(value) == value.t = "num"

\* value * MS_TO_KNOTS, exactly: n / Scale * 1.94384 for n = whole * Scale + frac
to_knots(value) ==
    Num((value.n \div Scale) * MS_TO_KNOTS
        + ((value.n % Scale) * MS_TO_KNOTS) \div Scale)

\* a conversion that multiplies every numeric field, not only the wind keys
convert_hour_speeds_all(h) ==
    [key \in DOMAIN h |->
        IF isinstance_number(h[key]) THEN to_knots(h[key]) ELSE h[key]]

convert_hour_speeds(h) ==
    [key \in DOMAIN h |->
        IF key \in wind_speed_keys
        THEN (IF isinstance_number(h[key]) THEN to_knots(h[key]) ELSE h[key])
        ELSE h[key]]

(***************************************************************************)
(* _convert_hour_time (lines 154-161).  arrow.get parses the string,       *)
(* .to('Asia/Jerusalem') shifts it by the zone's offset at that instant,   *)
(* .format renders day and hour.                                           *)
(***************************************************************************)
\* Asia/Jerusalem summer time 2024, in hours since 2024-01-01T00:00Z:
\* from 2024-03-29T00:00Z (02:00 local) until 2024-10-26T23:00Z
DstStart == 2112
DstEnd == 7199
HoursPerDay == 24

utc_offset(h) == IF DstStart <= h /\ h < DstEnd THEN 3 ELSE 2

local_format(h) ==
    Local((h + utc_offset(h)) \div HoursPerDay, (h + utc_offset(h)) % HoursPerDay)

convert_hour_time(h) ==
    IF "time" \notin DOMAIN h
    THEN Raised(Exception("KeyError", "time"))
    ELSE IF h["time"].t # "iso"
    THEN Raised(Exception("ParserError", "Could not match input to any format"))
    ELSE Ok(DictMerge(h, [time |-> local_format(h["time"].utc)]))

(***************************************************************************)
(* _transform_hour (lines 163-173) and _process_hours (lines 175-183).     *)
(***************************************************************************)
transform_hour(h) == convert_hour_time(convert_hour_speeds(flatten_hour(h)))

\* the list comprehension: records are transformed left to right, each
\* result appended; the first raise ends the comprehension
RECURSIVE process_hours_from(_, _, _)
process_hours_from(hours, i, acc) ==
    IF i > Len(hours)
    THEN Ok(acc)
    ELSE LET r == transform_hour(hours[i])
         IN  IF r.ok
             THEN process_hours_from(hours, i + 1, Append(acc, r.val))
             ELSE r

\* a loop that skips the records it cannot transform
RECURSIVE process_hours_skipping_from(_, _, _)
process_hours_skipping_from(hours, i, acc) ==
    IF i > Len(hours)
    THEN Ok(acc)
    ELSE LET r == transform_hour(hours[i])
         IN  process_hours_skipping_from(
                 hours, i + 1, IF r.ok THEN Append(acc, r.val) ELSE acc)

process_hours_skipping(hours) == process_hours_skipping_from(hours, 1, <<>>)

process_hours(hours) == process_hours_from(hours, 1, <<>>)

(***************************************************************************)
(* The wall clock.  An instant is a count of ticks, TicksPerDay to the     *)
(* calendar day; arrow.now() returns the last reading or a later one.      *)
(***************************************************************************)
Instant(tick) == [t |-> "instant", tick |-> tick]

arrow_now(last) == {last, last + 1}

shift_days(tick, n) == tick + n * TicksPerDay

floor_day(tick) == (tick \div TicksPerDay) * TicksPerDay

ceil_day(tick) == floor_day(tick) + TicksPerDay - 1

day_of(tick) == tick \div TicksPerDay

\* .format('YYYY-MM-DD HH:mm') of a clock reading
format_now(tick) == Local(tick \div TicksPerDay, tick % TicksPerDay)

(***************************************************************************)
(* _update_meta (lines 185-203).                                           *)
(***************************************************************************)
UnitDescriptions ==
    [windSpeed |-> "Speed of wind at 10m above ground in knots",
     gust |-> "Wind gust in knots",
     airTemperature |-> "Air temperature in degrees celsius",
     swellHeight |-> "Height of swell waves in meters",
     swellPeriod |-> "Period of swell waves in seconds",
     swellDirection |-> "Direction of swell waves. 0 indicates swell coming from north",
     waterTemperature |-> "Water temperature in degrees celsius",
     windDirection |-> "Direction of wind at 10m above ground. 0 indicates wind coming from north"]

Units == [t |-> "units", d |-> UnitDescriptions]

\* an enrichment that rebuilds the meta from the coordinates alone
update_meta_rebuilding(meta, now) ==
    DictMerge([k \in (DOMAIN meta) \cap {"lat", "lng"} |-> meta[k]],
              [report_generated_at |-> format_now(now), units |-> Units])

update_meta(meta, now) ==
    DictMerge(meta, [report_generated_at |-> format_now(now), units |-> Units])

(***************************************************************************)
(* get_api_key (lines 209-224).                                            *)
(***************************************************************************)
get_api_key(environ) ==
    IF environ = None \/ environ = Str("")
    THEN Raised(Exception("ValueError", "API key not found"))
    ELSE Ok(environ)

(***************************************************************************)
(* _fetch_weather_data, after requests.get returned (lines 261-276).       *)
(***************************************************************************)
STORMGLASS_ERROR_MESSAGES ==
    (402 :> "Payment Required: You've exceeded the daily request limit")
    @@ (403 :> "Forbidden: Your API key was not provided or is malformed")
    @@ (404 :> "Not Found: The requested API resource does not exist")
    @@ (405 :> "Method Not Allowed: unsupported method")
    @@ (410 :> "Gone: legacy API resource that is no longer available")
    @@ (422 :> "Unprocessable Content: Invalid request parameters")
    @@ (503 :> "Service Unavailable: Storm Glass is experiencing technical difficulties")

StormGlassAPIError(status_code, message) ==
    [cls |-> "StormGlassAPIError", status_code |-> status_code,
     message |-> message]

\* the f-string of lines 268-272: the status and the raw response text
unexpected_message(resp) ==
    [t |-> "unexpected", status |-> resp.status_code, text |-> resp.body]

\* response.json(): the decoded document, or a JSON decode error.  Newer
\* releases of requests raise their own JSONDecodeError, older ones the
\* json module's; `cls` is the one the installed release raises.
response_json(resp, cls) ==
    IF resp.body.json
    THEN Ok(resp.body.doc)
    ELSE Raised(Exception(cls, "Expecting value: line 1 column 1 (char 0)"))

\* a status check that accepts every 2xx status
fetch_result_any_2xx(resp, cls) ==
    IF resp.status_code \in DOMAIN STORMGLASS_ERROR_MESSAGES
    THEN Raised(StormGlassAPIError(resp.status_code,
                                   STORMGLASS_ERROR_MESSAGES[resp.status_code]))
    ELSE IF resp.status_code < 200 \/ resp.status_code > 299
    THEN Raised(StormGlassAPIError(resp.status_code, unexpected_message(resp)))
    ELSE response_json(resp, cls)

fetch_result(resp, cls) ==
    IF resp.status_code \in DOMAIN STORMGLASS_ERROR_MESSAGES
    THEN Raised(StormGlassAPIError(resp.status_code,
                                   STORMGLASS_ERROR_MESSAGES[resp.status_code]))
    ELSE IF resp.status_code # 200
    THEN Raised(StormGlassAPIError(resp.status_code, unexpected_message(resp)))
    ELSE response_json(resp, cls)

(***************************************************************************)
(* _parse_arguments, the validation (lines 342-357).  parser.error prints  *)
(* the usage and raises SystemExit(2).                                     *)
(***************************************************************************)
SystemExit(code, msg) == [cls |-> "SystemExit", code |-> code, message |-> msg]

parse_arguments(days_ahead, first_day_offset) ==
    IF days_ahead < 1 \/ days_ahead > 7
    THEN Raised(SystemExit(2, "days-ahead must be between 1 and 7"))
    ELSE IF first_day_offset < 0 \/ first_day_offset > 7
    THEN Raised(SystemExit(2, "first-day-offset must be between 0 and 7"))
    ELSE IF days_ahead + first_day_offset > 7
    THEN Raised(SystemExit(2, "exceeds maximum of 7 days"))
    ELSE Ok([t |-> "args", days_ahead |-> days_ahead,
             first_day_offset |-> first_day_offset])

(***************************************************************************)
(* The except chain of the __main__ block (lines 389-412).                 *)
(***************************************************************************)
\* the classes an exception of class cls is an instance of
Bases(cls) ==
    CASE cls = "StormGlassAPIError" -> {"StormGlassAPIError", "Exception"}
      [] cls = "ValueError" -> {"ValueError", "Exception"}
      [] cls = "ParserError" -> {"ParserError", "ValueError", "Exception"}
      [] cls = "json.JSONDecodeError" ->
            {"json.JSONDecodeError", "ValueError", "Exception"}
      [] cls = "requests.JSONDecodeError" ->
            {"requests.JSONDecodeError", "json.JSONDecodeError",
             "RequestException", "ValueError", "Exception"}
      [] cls = "ConnectionError" ->
            {"ConnectionError", "RequestException", "Exception"}
      [] cls = "Timeout" -> {"Timeout", "RequestException", "Exception"}
      [] cls = "KeyError" -> {"KeyError", "Exception"}
      [] cls = "SystemExit" -> {"SystemExit"}

isinstance_exc(e, cls) == cls \in Bases(e.cls)

IntVal(i) == [t |-> "int", i |-> i]

Banner(error_type, error_code) ==
    [t |-> "banner", error_type |-> error_type, error_code |-> error_code]

\* what the first matching except clause prints, and the exit status;
\* an exception no clause matches leaves the block as it is (SystemExit
\* ends the process with its own code)
except_chain(e) ==
    IF isinstance_exc(e, "StormGlassAPIError")
    THEN [printed |-> Banner("STORM GLASS API ERROR", IntVal(e.status_code)),
          exit_code |-> 1]
    ELSE IF isinstance_exc(e, "ValueError")
    THEN [printed |-> Banner("CONFIGURATION ERROR", None), exit_code |-> 1]
    ELSE IF isinstance_exc(e, "RequestException")
    THEN [printed |-> Banner("NETWORK ERROR", None), exit_code |-> 1]
    ELSE IF isinstance_exc(e, "Exception")
    THEN [printed |-> Banner("UNEXPECTED ERROR", None), exit_code |-> 1]
    ELSE [printed |-> None, exit_code |-> e.code]

(***************************************************************************)
(* What a run can receive: the environment's key, the provider's answers.  *)
(***************************************************************************)
EnvValues == {None, Str(""), Str("secret-key")}

\* the hour records a whole run carries: a flattenable one, one whose
\* container has no 'sg' entry, one with an unparseable time, one without time
RunHourRecords ==
    {[time |-> Iso(12), windSpeed |-> Map([s \in {"sg"} |-> Num(MaxNum * Scale)])],
     [time |-> Iso(3648), gust |-> Map([s \in {"noaa"} |-> Num(MaxNum * Scale)])],
     [time |-> Str("not a timestamp")],
     [windSpeed |-> Num(MaxNum * Scale)]}

HourLists == UNION {[1..n -> RunHourRecords] : n \in 0..MaxHours}

MetaKeys == {"lat", "cost"}
RawMetas == UNION {[K -> {Num(MaxNum * Scale)}] : K \in SUBSET MetaKeys}

\* decoded JSON documents: with both fields, with one of them, with neither
Payloads ==
    {[hours |-> hs, meta |-> m] : hs \in HourLists, m \in RawMetas}
    \cup {[hours |-> hs] : hs \in {l \in HourLists : Len(l) <= 1}}
    \cup {[meta |-> m] : m \in RawMetas}
    \cup {<<>>}

InvalidBody == [json |-> FALSE, raw |-> "<html>Bad Gateway</html>"]
JsonBody(doc) == [json |-> TRUE, doc |-> doc]

OtherStatusCodes == {201, 204, 301, 400, 401, 429, 500}

Response(status_code, body) ==
    [t |-> "response", status_code |-> status_code, body |-> body]

Responses ==
    {Response(200, b) : b \in {JsonBody(p) : p \in Payloads} \cup {InvalidBody}}
    \cup {Response(s, b) :
            s \in (DOMAIN STORMGLASS_ERROR_MESSAGES) \cup OtherStatusCodes,
            b \in {InvalidBody, JsonBody(<<>>)}}

JSONDecodeErrorClasses == {"requests.JSONDecodeError", "json.JSONDecodeError"}
TransportErrorClasses == {"ConnectionError", "Timeout"}

(***************************************************************************)
(* Initial states.                                                         *)
(***************************************************************************)
RunIdle ==
    /\ args = None /\ start = None /\ end = None /\ api_key = None
    /\ request = None /\ response = None /\ raw_data = None
    /\ hours_t = None /\ transformed_data = None
    /\ file_opened = FALSE /\ exc = None /\ printed = None
    /\ exit_code = -1

PipeIdle ==
    /\ flattened = None /\ reflattened = None /\ with_speeds = None
    /\ transformed = None

\* the script starts at some moment of day 0, with or without a key in the
\* environment and with or without an output file left by an earlier run
Init ==
    /\ pc = "parse"
    /\ RunIdle
    /\ clock \in 0..(TicksPerDay - 1)
    /\ env \in EnvValues
    /\ file \in {None, Str("output of an earlier run")}
    /\ t_pc = "idle" /\ hour = None /\ PipeIdle

(***************************************************************************)
(* The run, one action per statement of the __main__ block.                *)
(***************************************************************************)
\* an exception leaves the try block: the except chain prints and exits
Abort(e) ==
    /\ pc' = "exited"
    /\ exc' = e
    /\ printed' = except_chain(e).printed
    /\ exit_code' = except_chain(e).exit_code

\* line 362
ParseArguments ==
    /\ pc = "parse"
    /\ \E days_ahead \in 0..MaxArg, first_day_offset \in -1..MaxArg :
         LET r == parse_arguments(days_ahead, first_day_offset)
         IN  IF r.ok
             THEN /\ args' = r.val
                  /\ pc' = "start"
                  /\ UNCHANGED <<exc, printed, exit_code>>
             ELSE /\ Abort(r.exc)
                  /\ UNCHANGED args
    /\ UNCHANGED <<clock, start, end, env, api_key, request, response,
                   raw_data, hours_t, transformed_data, file, file_opened>>
    /\ UNCHANGED pipe_vars

\* line 365
ComputeStart ==
    /\ pc = "start"
    /\ \E now \in arrow_now(clock) :
         /\ clock' = now
         /\ start' = Instant(floor_day(shift_days(now, args.first_day_offset)))
    /\ pc' = "end"
    /\ UNCHANGED <<args, end, env, api_key, request, response, raw_data,
                   hours_t, transformed_data, file, file_opened, exc, printed,
                   exit_code>>
    /\ UNCHANGED pipe_vars

\* line 366
ComputeEnd ==
    /\ pc = "end"
    /\ \E now \in arrow_now(clock) :
         /\ clock' = now
         /\ end' = Instant(ceil_day(shift_days(
                       now, args.first_day_offset + args.days_ahead - 1)))
    /\ pc' = "key"
    /\ UNCHANGED <<args, start, env, api_key, request, response, raw_data,
                   hours_t, transformed_data, file, file_opened, exc, printed,
                   exit_code>>
    /\ UNCHANGED pipe_vars

\* line 368
GetApiKey ==
    /\ pc = "key"
    /\ LET r == get_api_key(env)
       IN  IF r.ok
           THEN /\ api_key' = r.val
                /\ pc' = "fetch"
                /\ UNCHANGED <<exc, printed, exit_code>>
           ELSE /\ Abort(r.exc)
                /\ UNCHANGED api_key
    /\ UNCHANGED <<args, clock, start, end, env, request, response, raw_data,
                   hours_t, transformed_data, file, file_opened>>
    /\ UNCHANGED pipe_vars

\* the query of lines 246-259
Query ==
    [t |-> "query", start |-> start.tick, end |-> end.tick, source |-> "sg",
     Authorization |-> api_key]

\* line 375, the request fails in transit: requests.get raises
FetchTransportError ==
    /\ pc = "fetch"
    /\ request' = Query
    /\ \E cls \in TransportErrorClasses :
         Abort(Exception(cls, "Failed to establish a new connection"))
    /\ UNCHANGED <<args, clock, start, end, env, api_key, response, raw_data,
                   hours_t, transformed_data, file, file_opened>>
    /\ UNCHANGED pipe_vars

\* line 375, the provider answers
FetchWeatherData ==
    /\ pc = "fetch"
    /\ request' = Query
    /\ \E resp \in Responses, cls \in JSONDecodeErrorClasses :
         /\ response' = resp
         /\ LET r == fetch_result(resp, cls)
            IN  IF r.ok
                THEN /\ raw_data' = r.val
                     /\ pc' = "hours"
                     /\ UNCHANGED <<exc, printed, exit_code>>
                ELSE /\ Abort(r.exc)
                     /\ UNCHANGED raw_data
    /\ UNCHANGED <<args, clock, start, end, env, api_key, hours_t,
                   transformed_data, file, file_opened>>
    /\ UNCHANGED pipe_vars

HourList(items) == [t |-> "list", items |-> items]

\* line 379
ProcessHours ==
    /\ pc = "hours"
    /\ LET r == IF "hours" \in DOMAIN raw_data
                THEN process_hours(raw_data["hours"])
                ELSE Raised(Exception("KeyError", "hours"))
       IN  IF r.ok
           THEN /\ hours_t' = HourList(r.val)
                /\ pc' = "meta"
                /\ UNCHANGED <<exc, printed, exit_code>>
           ELSE /\ Abort(r.exc)
                /\ UNCHANGED hours_t
    /\ UNCHANGED <<args, clock, start, end, env, api_key, request, response,
                   raw_data, transformed_data, file, file_opened>>
    /\ UNCHANGED pipe_vars

\* lines 378-381: the meta is enriched and the result assembled
UpdateMeta ==
    /\ pc = "meta"
    /\ IF "meta" \in DOMAIN raw_data
       THEN /\ \E now \in arrow_now(clock) :
                 /\ clock' = now
                 /\ transformed_data' =
                        [t |-> "data", hours |-> hours_t.items,
                         meta |-> update_meta(raw_data["meta"], now)]
            /\ pc' = "write"
            /\ UNCHANGED <<exc, printed, exit_code>>
       ELSE /\ Abort(Exception("KeyError", "meta"))
            /\ UNCHANGED <<clock, transformed_data>>
    /\ UNCHANGED <<args, start, end, env, api_key, request, response,
                   raw_data, hours_t, file, file_opened>>
    /\ UNCHANGED pipe_vars

\* line 384
weather_data_file_name ==
    [t |-> "name", days |-> args.days_ahead, yymmdd |-> day_of(start.tick)]

\* a write that happens as soon as the fetch has returned
WriteWeatherJsonEarly ==
    /\ pc = "hours"
    /\ file' = [t |-> "json", name |-> weather_data_file_name,
                doc |-> raw_data]
    /\ file_opened' = TRUE
    /\ pc' = "hours"
    /\ UNCHANGED <<args, clock, start, end, env, api_key, request, response,
                   raw_data, hours_t, transformed_data, exc, printed,
                   exit_code>>
    /\ UNCHANGED pipe_vars

\* lines 384-385
WriteWeatherJson ==
    /\ pc = "write"
    /\ file' = [t |-> "json", name |-> weather_data_file_name,
                doc |-> transformed_data]
    /\ file_opened' = TRUE
    /\ pc' = "read"
    /\ UNCHANGED <<args, clock, start, end, env, api_key, request, response,
                   raw_data, hours_t, transformed_data, exc, printed,
                   exit_code>>
    /\ UNCHANGED pipe_vars

\* lines 386-387: the file is read back, its count printed, the run ends
ReadWeatherDataFile ==
    /\ pc = "read"
    /\ printed' = [t |-> "loaded", count |-> Len(file.doc.hours)]
    /\ exit_code' = 0
    /\ pc' = "done"
    /\ UNCHANGED <<args, clock, start, end, env, api_key, request, response,
                   raw_data, hours_t, transformed_data, file, file_opened, exc>>
    /\ UNCHANGED pipe_vars

Next ==
    \/ ParseArguments
    \/ ComputeStart
    \/ ComputeEnd
    \/ GetApiKey
    \/ FetchTransportError
    \/ FetchWeatherData
    \/ ProcessHours
    \/ UpdateMeta
    \/ WriteWeatherJson
    \/ ReadWeatherDataFile

Spec == Init /\ [][Next]_vars

(***************************************************************************)
(* The per-record pipeline: _transform_hour of one raw hour record, one    *)
(* action per call it makes (lines 170-173), and _flatten_hour applied a   *)
(* second time to its own result.                                          *)
(***************************************************************************)
Dict(d) == [t |-> "dict", d |-> d]

InitTransform ==
    /\ t_pc = "flatten"
    /\ hour \in {Dict(r) : r \in RawHourRecords}
    /\ PipeIdle
    /\ pc = "idle" /\ RunIdle /\ clock = 0 /\ env = None /\ file = None

\* line 170
FlattenHour ==
    /\ t_pc = "flatten"
    /\ flattened' = Dict(flatten_hour(hour.d))
    /\ t_pc' = "speeds"
    /\ UNCHANGED <<hour, reflattened, with_speeds, transformed>>
    /\ UNCHANGED run_vars

\* _flatten_hour applied to a record it has returned
FlattenAgain ==
    /\ t_pc = "speeds"
    /\ reflattened = None
    /\ reflattened' = Dict(flatten_hour(flattened.d))
    /\ UNCHANGED <<t_pc, hour, flattened, with_speeds, transformed>>
    /\ UNCHANGED run_vars

\* line 171
ConvertHourSpeeds ==
    /\ t_pc = "speeds"
    /\ with_speeds' = Dict(convert_hour_speeds(flattened.d))
    /\ t_pc' = "time"
    /\ UNCHANGED <<hour, flattened, reflattened, transformed>>
    /\ UNCHANGED run_vars

\* lines 172-173
ConvertHourTime ==
    /\ t_pc = "time"
    /\ transformed' = convert_hour_time(with_speeds.d)
    /\ t_pc' = IF convert_hour_time(with_speeds.d).ok THEN "returned" ELSE "raised"
    /\ UNCHANGED <<hour, flattened, reflattened, with_speeds>>
    /\ UNCHANGED run_vars

NextTransform ==
    \/ FlattenHour
    \/ FlattenAgain
    \/ ConvertHourSpeeds
    \/ ConvertHourTime

SpecTransform == InitTransform /\ [][NextTransform]_vars

(***************************************************************************)
(* Properties.                                                             *)
(***************************************************************************)
KnownErrorCodes == {402, 403, 404, 405, 410, 422, 503}

\* C1: once a response has arrived, a status of the known-error set has
\* raised a provider error with that status and the table's message for it,
\* any other status but 200 has raised a provider error with that status and
\* the generic message holding the raw body, and a payload was returned only
\* for status 200, and is the decoded body itself.
C1_FetchStatusContract ==
    response # None =>
        LET s == response.status_code
        IN  /\ s \in KnownErrorCodes =>
                /\ exc = [cls |-> "StormGlassAPIError", status_code |-> s,
                          message |-> STORMGLASS_ERROR_MESSAGES[s]]
                /\ raw_data = None
            /\ (s \notin KnownErrorCodes /\ s # 200) =>
                /\ exc = [cls |-> "StormGlassAPIError", status_code |-> s,
                          message |-> [t |-> "unexpected", status |-> s,
                                       text |-> response.body]]
                /\ raw_data = None
            /\ raw_data # None =>
                /\ s = 200
                /\ response.body.json
                /\ raw_data = response.body.doc

\* C1 witness: an unlisted status (429) has ended the run with the generic
\* provider error.
C1_Witness ==
    /\ pc = "exited"
    /\ response # None
    /\ response.status_code = 429
    /\ exc.cls = "StormGlassAPIError"
    /\ exc.message.text = InvalidBody

\* C2: on a 200 response an undecodable body has raised a decode error, and
\* whatever the fetch returned holds both `hours` and `meta`.
C2_FetchRejectsIncompletePayload ==
    /\ (response # None /\ response.status_code = 200 /\ ~response.body.json) =>
            (raw_data = None /\ exc.cls \in JSONDecodeErrorClasses)
    /\ raw_data # None => {"hours", "meta"} \subseteq DOMAIN raw_data

\* C3: a record the transform returned holds no source container, and the
\* flattening never returns for a record with a container that has no `sg`
\* entry.
C3_NoNestedContainer ==
    /\ t_pc = "returned" =>
            \A k \in DOMAIN transformed.val : transformed.val[k].t # "map"
    /\ flattened # None =>
            \A k \in DOMAIN hour.d :
                ~(hour.d[k].t = "map" /\ "sg" \notin DOMAIN hour.d[k].m)

\* C4: the output file has been opened for writing only after the fetch
\* returned a payload and the transforms of all hours and of the meta
\* returned; a run that ended in an error has not opened it and has left
\* whatever was there before.
C4_NoWriteOnFailure ==
    /\ file_opened =>
            /\ response # None /\ response.status_code = 200
            /\ raw_data # None
            /\ hours_t # None
            /\ transformed_data # None
            /\ exc = None
            /\ file.t = "json" /\ file.doc = transformed_data
    /\ ~file_opened => file.t # "json"
    /\ pc = "exited" => ~file_opened

\* C4 witness: the second of two hour records failed to transform after the
\* first one succeeded, and the run ended without opening the file.
C4_Witness ==
    /\ pc = "exited"
    /\ raw_data # None
    /\ "hours" \in DOMAIN raw_data
    /\ Len(raw_data["hours"]) = 2
    /\ transform_hour(raw_data["hours"][1]).ok
    /\ ~transform_hour(raw_data["hours"][2]).ok
    /\ ~file_opened

\* C5: a run that ended in an error exits non-zero, and what it printed
\* names the error's category: configuration only when the key was missing
\* or empty, provider (with the status) for a non-200 status, network for a
\* transport failure, decode for an undecodable body or a payload without
\* `hours` or `meta`.
C5_ErrorsReportedByCategory ==
    pc = "exited" =>
        /\ exit_code # 0
        /\ printed # None =>
            /\ printed.error_type = "CONFIGURATION ERROR" =>
                    (api_key = None /\ request = None)
            /\ exc.cls = "StormGlassAPIError" =>
                    printed = Banner("STORM GLASS API ERROR",
                                     IntVal(response.status_code))
            /\ exc.cls \in TransportErrorClasses =>
                    printed.error_type = "NETWORK ERROR"
            /\ (\/ exc.cls \in JSONDecodeErrorClasses
                \/ (exc.cls = "KeyError" /\ exc.message \in {"hours", "meta"})) =>
                    printed.error_type = "DECODE ERROR"

\* C6: when _process_hours has returned, its result is as long as the input,
\* its i-th record is the transform of the i-th input record, and the input
\* is what the fetch returned.
C6_ProcessHoursElementwise ==
    hours_t # None =>
        /\ Len(hours_t.items) = Len(raw_data["hours"])
        /\ \A i \in 1..Len(raw_data["hours"]) :
                /\ transform_hour(raw_data["hours"][i]).ok
                /\ hours_t.items[i] = transform_hour(raw_data["hours"][i]).val
        /\ raw_data = response.body.doc

\* C6 witness: two different records were transformed, in order.
C6_Witness ==
    /\ hours_t # None
    /\ Len(hours_t.items) = 2
    /\ hours_t.items[1] # hours_t.items[2]
    /\ "windSpeed" \in DOMAIN hours_t.items[1]

EightParameters ==
    {"windSpeed", "gust", "airTemperature", "swellHeight", "swellPeriod",
     "swellDirection", "waterTemperature", "windDirection"}

\* C7: the enriched meta keeps every key of the raw meta with its value, adds
\* exactly `report_generated_at` and `units`, `units` has exactly the eight
\* parameter keys, and the raw meta is as the fetch returned it.
C7_UpdateMetaFrame ==
    transformed_data # None =>
        LET m == raw_data["meta"]
            out == transformed_data.meta
        IN  /\ DOMAIN out = (DOMAIN m) \cup {"report_generated_at", "units"}
            /\ (DOMAIN out) \ (DOMAIN m) = {"report_generated_at", "units"}
            /\ \A k \in DOMAIN m : out[k] = m[k]
            /\ DOMAIN out["units"].d = EightParameters
            /\ raw_data = response.body.doc

\* C7 witness: a meta with both of its keys was enriched.
C7_Witness ==
    /\ transformed_data # None
    /\ DOMAIN raw_data["meta"] = MetaKeys

\* C8: in a returned record, windSpeed and gust given as {"sg": v} hold v
\* times 1.94384, and every key but windSpeed, gust and time holds its
\* flattened value.
C8_KnotsOnlyWindKeys ==
    t_pc = "returned" =>
        \A k \in DOMAIN hour.d :
            /\ (k \in {"windSpeed", "gust"} /\ hour.d[k].t = "map"
                    /\ "sg" \in DOMAIN hour.d[k].m) =>
                  /\ hour.d[k].m["sg"].n % Scale = 0
                  /\ transformed.val[k].t = "num"
                  /\ transformed.val[k].n =
                        (hour.d[k].m["sg"].n \div Scale) * MS_TO_KNOTS
            /\ k \notin {"windSpeed", "gust", "time"} =>
                  transformed.val[k] = flattened.d[k]

\* C8 witness: a record with windSpeed {"sg": v}, v not zero, and a numeric
\* airTemperature was transformed.
C8_Witness ==
    /\ t_pc = "returned"
    /\ "windSpeed" \in DOMAIN hour.d
    /\ hour.d["windSpeed"] = Map([s \in {"sg"} |-> Num(MaxNum * Scale)])
    /\ "airTemperature" \in DOMAIN hour.d
    /\ hour.d["airTemperature"] = Num(MaxNum * Scale)

\* C9: flattening a flattened record changes nothing, and a flattened record
\* has the keys of the record it came from.
C9_FlattenIdempotent ==
    reflattened # None =>
        /\ reflattened = flattened
        /\ DOMAIN flattened.d = DOMAIN hour.d

\* C9 witness: a record with one container holding `sg` and one without it
\* was flattened twice.
C9_Witness ==
    /\ reflattened # None
    /\ {"windSpeed", "gust"} \subseteq DOMAIN hour.d
    /\ hour.d["windSpeed"].t = "map" /\ "sg" \in DOMAIN hour.d["windSpeed"].m
    /\ hour.d["gust"].t = "map" /\ "sg" \notin DOMAIN hour.d["gust"].m
    /\ flattened # hour

\* C10: when the request has been sent, the arguments are in range, the
\* window starts at the first tick of its first day and ends at the last
\* tick of its last day, start is not after end, and the window spans
\* exactly days_ahead calendar days.
C10_WindowSpansDaysAhead ==
    request # None =>
        /\ 1 <= args.days_ahead /\ args.days_ahead <= 7
        /\ 0 <= args.first_day_offset /\ args.first_day_offset <= 7
        /\ args.days_ahead + args.first_day_offset <= 7
        /\ start.tick % TicksPerDay = 0
        /\ end.tick % TicksPerDay = TicksPerDay - 1
        /\ start.tick <= end.tick
        /\ day_of(end.tick) - day_of(start.tick) + 1 = args.days_ahead

====
